---- MODULE Spec2Model ----
(***************************************************************************)
(* Model of the bar-chart wizard of app.py: the SessionState record, the   *)
(* rule engine (guardrails, analyze_data, give_hint, reset_hints) and the  *)
(* Streamlit script that binds the widgets of the current step to the      *)
(* session and reacts to the buttons.  One action is one user interaction  *)
(* together with the script run(s) it triggers.                            *)
(*                                                                         *)
(* Texts are sequences of one-character strings, so that strip(), lower()  *)
(* and the substring test are computed.  None is "None" for string-valued  *)
(* fields and outputs, NoneText for texts.                                 *)
(***************************************************************************)
EXTENDS Integers, Sequences, FiniteSets, TLC

VARIABLES
  engine,     \* st.session_state.engine
  user_free,  \* the free question typed at step 1
  toast,      \* the hint toasted by the last run, None if none
  error,      \* the error shown by the last run, None if none
  info,       \* the answer to the free question shown by the last run
  granted,    \* history: a topic hint was returned since the step was entered
  last,       \* the kind of widget whose change triggered the last run
  call        \* a call of an engine function on its own: arguments and result

vars == <<engine, user_free, toast, error, info, granted, last, call>>

None == "None"

NoneText == <<"None">>

EmptyDict == [k \in {} |-> 0]

\* d.get(k, default)
Get(d, k, default) == IF k \in DOMAIN d THEN d[k] ELSE default

\* Python truthiness of an optional text: None and "" are falsy.
Truthy(t) == t # NoneText /\ t # <<>>

\* `t or ""`
OrEmpty(t) == IF Truthy(t) THEN t ELSE <<>>

\* str(t) of an optional text: str(None) is the text "None".
Str(t) == IF t = NoneText THEN <<"N", "o", "n", "e">> ELSE t

(***************************************************************************)
(* str.strip() and str.lower()                                             *)
(***************************************************************************)
Whitespace == {" ", "\t", "\n"}

RECURSIVE LStrip(_)
LStrip(t) == IF t # <<>> /\ Head(t) \in Whitespace THEN LStrip(Tail(t)) ELSE t

RECURSIVE RStrip(_)
RStrip(t) ==
  IF t # <<>> /\ t[Len(t)] \in Whitespace THEN RStrip(SubSeq(t, 1, Len(t) - 1)) ELSE t

Strip(t) == RStrip(LStrip(t))

UpperChars ==
  <<"A", "B", "C", "D", "E", "F", "G", "H", "I", "J", "K", "L", "M",
    "N", "O", "P", "Q", "R", "S", "T", "U", "V", "W", "X", "Y", "Z", "À">>

LowerChars ==
  <<"a", "b", "c", "d", "e", "f", "g", "h", "i", "j", "k", "l", "m",
    "n", "o", "p", "q", "r", "s", "t", "u", "v", "w", "x", "y", "z", "à">>

LowerChar(c) ==
  IF \E i \in 1..Len(UpperChars) : UpperChars[i] = c
  THEN LowerChars[CHOOSE i \in 1..Len(UpperChars) : UpperChars[i] = c]
  ELSE c

Lower(t) == [i \in 1..Len(t) |-> LowerChar(t[i])]

\* `p in t` for texts
Contains(t, p) ==
  \E i \in 1..(Len(t) - Len(p) + 1) : SubSeq(t, i, i + Len(p) - 1) = p

(***************************************************************************)
(* SessionState and the engine constants                                   *)
(***************************************************************************)
SessionState ==
  [step |-> 1, hints_given |-> 0, goal |-> NoneText, variable |-> NoneText,
   var_type |-> None, categories |-> <<>>, counts |-> <<>>,
   scale_choice |-> EmptyDict, scale_justif |-> NoneText,
   checklist |-> EmptyDict, improvement |-> NoneText, reflection |-> NoneText]

MAX_HINTS_PER_STEP == 1

BANNED_PHRASES ==
  { <<"f","a","i","s"," ","l","e"," ","g","r","a","p","h","i","q","u","e">>,
    <<"t","r","a","c","e"," ","l","e"," ","g","r","a","p","h","i","q","u","e">>,
    <<"t","r","a","c","e","r">>,
    <<"d","o","n","n","e"," ","l","e"," ","c","o","d","e">>,
    <<"c","o","d","e"," ","c","o","m","p","l","e","t">>,
    <<"p","l","o","t">>,
    <<"m","a","t","p","l","o","t","l","i","b">>,
    <<"g","g","p","l","o","t">>,
    <<"f","a","i","s","-","l","e"," ","à"," ","m","a"," ","p","l","a","c","e">> }

REFUSAL ==
  "Je ne peux pas produire le diagramme ni fournir du code de tracé. Je peux t'aider à le construire, étape par étape."

\* guardrails without text.lower()
guardrails_case_sensitive(text) ==
  IF \E b \in BANNED_PHRASES : Contains(text, b) THEN REFUSAL ELSE None

guardrails(text) ==
  LET lower == Lower(text)
  IN  IF \E b \in BANNED_PHRASES : Contains(lower, b) THEN REFUSAL ELSE None

(***************************************************************************)
(* Raw cell values of the count column: an integer, a string or None.      *)
(***************************************************************************)
IntV(n) == [kind |-> "int", n |-> n, s |-> <<>>]

StrV(t) == [kind |-> "str", n |-> 0, s |-> t]

NoneV == [kind |-> "none", n |-> 0, s |-> <<>>]

Digits == <<"0", "1", "2", "3", "4", "5", "6", "7", "8", "9">>

IsDigit(c) == \E i \in 1..10 : Digits[i] = c

DigitVal(c) == (CHOOSE i \in 1..10 : Digits[i] = c) - 1

RECURSIVE DigitsVal(_)
DigitsVal(t) ==
  IF t = <<>> THEN 0 ELSE 10 * DigitsVal(SubSeq(t, 1, Len(t) - 1)) + DigitVal(t[Len(t)])

\* the digits of a numeral after strip() and an optional sign
Unsigned(t) ==
  LET u == Strip(t)
  IN  IF u # <<>> /\ Head(u) \in {"+", "-"} THEN Tail(u) ELSE u

\* int(v) succeeds
CanInt(v) ==
  \/ v.kind = "int"
  \/ /\ v.kind = "str"
     /\ Unsigned(v.s) # <<>>
     /\ \A i \in 1..Len(Unsigned(v.s)) : IsDigit(Unsigned(v.s)[i])

\* int(v), where it succeeds
ToInt(v) ==
  IF v.kind = "int" THEN v.n
  ELSE IF Head(Strip(v.s)) = "-" THEN 0 - DigitsVal(Unsigned(v.s))
       ELSE DigitsVal(Unsigned(v.s))

(***************************************************************************)
(* analyze_data                                                            *)
(***************************************************************************)
ISSUE_DUPLICATE ==
  "Catégories en doublon ou variantes d'orthographe : harmonise la casse/accents."

ISSUE_NON_INTEGER ==
  "Effectifs non entiers : assure-toi que chaque effectif est un entier."

ISSUE_NEGATIVE == "Effectifs négatifs détectés : vérifie la saisie."

ISSUE_NULL_SUM ==
  "Somme nulle : vérifie que les effectifs ne sont pas vides ou tous nuls."

\* the labels stripped, the empty ones kept
StrippedNonEmpty_keep_empty(categories) == [i \in 1..Len(categories) |-> Strip(categories[i])]

\* [c.strip() for c in categories if str(c).strip() != ""]
RECURSIVE StrippedNonEmpty(_)
StrippedNonEmpty(categories) ==
  IF categories = <<>> THEN <<>>
  ELSE (IF Strip(Str(Head(categories))) # <<>> THEN <<Strip(Head(categories))>> ELSE <<>>)
       \o StrippedNonEmpty(Tail(categories))

RECURSIVE Sum(_)
Sum(s) == IF s = <<>> THEN 0 ELSE Head(s) + Sum(Tail(s))

\* max(s) of a non-empty list
Max(s) == CHOOSE m \in {s[i] : i \in 1..Len(s)} : \A i \in 1..Len(s) : s[i] <= m

\* Python round(m / 8): round half to even
\* round(m / 8) with halves rounded up instead of to the even neighbour
Round8_half_up(m) == (m + 4) \div 8

Round8(m) ==
  LET q == m \div 8
      r == m % 8
  IN  IF r < 4 THEN q
      ELSE IF r > 4 THEN q + 1
      ELSE IF q % 2 = 0 THEN q ELSE q + 1

Max2(a, b) == IF a >= b THEN a ELSE b

suggested_step(maxv) == IF maxv # 0 THEN Max2(1, Round8(maxv)) ELSE 1

\* a top two steps above the last multiple of the step
rounded_top_two_steps(maxv) ==
  IF maxv # 0 THEN ((maxv \div suggested_step(maxv)) + 2) * suggested_step(maxv) ELSE 10

rounded_top(maxv) ==
  IF maxv # 0 THEN ((maxv \div suggested_step(maxv)) + 1) * suggested_step(maxv) ELSE 10

analyze_data(categories, counts) ==
  LET unique == StrippedNonEmpty(categories)
      dup == Cardinality({Lower(unique[i]) : i \in 1..Len(unique)}) # Len(unique)
      coerced == \A i \in 1..Len(counts) : CanInt(counts[i])
      ints == IF coerced THEN [i \in 1..Len(counts) |-> ToInt(counts[i])] ELSE <<>>
      neg == ints # <<>> /\ \E i \in 1..Len(ints) : ints[i] < 0
      total == IF ints # <<>> THEN Sum(ints) ELSE 0
      maxv == IF ints # <<>> THEN Max(ints) ELSE 0
      issues == (IF dup THEN <<ISSUE_DUPLICATE>> ELSE <<>>)
                \o (IF ~coerced THEN <<ISSUE_NON_INTEGER>> ELSE <<>>)
                \o (IF neg THEN <<ISSUE_NEGATIVE>> ELSE <<>>)
                \o (IF ints # <<>> /\ total = 0 THEN <<ISSUE_NULL_SUM>> ELSE <<>>)
  IN  [issues |-> issues,
       stats |-> [total |-> total, max |-> maxv,
                  suggested_step |-> suggested_step(maxv),
                  rounded_top |-> rounded_top(maxv)]]

\* analyze_data without the try/except around int(x)
analyze_data_raises_uncaught(categories, counts) ==
  \/ \E i \in 1..Len(categories) :
        categories[i] = NoneText /\ Strip(Str(categories[i])) # <<>>
  \/ \E i \in 1..Len(counts) : ~CanInt(counts[i])

\* an exception escapes analyze_data: int(x) is inside the try/except, sum
\* and max are applied to integers, a non-empty list for max; what is left
\* is c.strip() on a label that is no str and passes the filter
analyze_data_raises(categories, counts) ==
  \E i \in 1..Len(categories) :
     categories[i] = NoneText /\ Strip(Str(categories[i])) # <<>>

(***************************************************************************)
(* give_hint and reset_hints                                               *)
(***************************************************************************)
HINT_FALLBACK == "Teste d'abord ta propre idée, puis reviens avec ton choix justifié."

HINT_SCALE ==
  "Indice : vise ~8 à 12 graduations régulières sur l'axe vertical. Choisis un pas qui dépasse légèrement l'effectif max quand on multiplie par le nombre de graduations."

HINT_LABELS ==
  "Indice : un bon titre = [verbe d'action] + [variable] + [population] + [contexte/année]."

HINT_DATA ==
  "Indice : liste d'abord les catégories uniques, puis additionne les effectifs de catégories homonymes (casse/accents)."

HINT_DEFAULT == "Indice : vérifie la cohérence des totaux et l'uniformité des catégories."

TopicHint(topic) ==
  IF topic = "scale" THEN HINT_SCALE
  ELSE IF topic = "labels" THEN HINT_LABELS
  ELSE IF topic = "data" THEN HINT_DATA
  ELSE HINT_DEFAULT

\* give_hint with the cap compared by > instead of >=
give_hint_cap_off_by_one(state, topic) ==
  IF state.hints_given > MAX_HINTS_PER_STEP
  THEN [state |-> state, text |-> HINT_FALLBACK]
  ELSE [state |-> [state EXCEPT !.hints_given = @ + 1], text |-> TopicHint(topic)]

\* the session after the call and the text returned
give_hint(state, topic) ==
  IF state.hints_given >= MAX_HINTS_PER_STEP
  THEN [state |-> state, text |-> HINT_FALLBACK]
  ELSE [state |-> [state EXCEPT !.hints_given = @ + 1], text |-> TopicHint(topic)]

\* a callback that leaves the counter alone
reset_hints_keep(state) == state

reset_hints(state) == [state EXCEPT !.hints_given = 0]

(***************************************************************************)
(* The Streamlit script: widget bindings of each step                      *)
(***************************************************************************)
VAR_TYPES == <<"qualitative", "quantitative_discrete">>

CHECKLIST_KEYS == <<"title", "x", "y", "bars", "scale", "source", "legend">>

THANKS == "Merci, concentre-toi sur la définition claire de la variable et de la population."

\* step 1: the text area, the text input and the radio write goal, variable
\* and var_type on every run
Step1Bind(e) ==
  [e EXCEPT !.goal = OrEmpty(@),
            !.variable = OrEmpty(@),
            !.var_type = VAR_TYPES[IF @ \in {None, "qualitative"} THEN 1 ELSE 2]]

\* step 1: the answer to the free question, shown while the field is filled
FreeAnswer(q) ==
  IF q # <<>>
  THEN (IF guardrails(q) # None THEN guardrails(q) ELSE THANKS)
  ELSE None

\* step 2: the table handed to the data editor, the session's rows padded
\* to five
BaseRows(e) ==
  LET n == Len(e.categories)
      padded == e.categories \o [i \in 1..Max2(0, 5 - n) |-> <<>>]
  IN  [i \in 1..Len(padded) |->
         [cat |-> IF i <= n THEN padded[i] ELSE <<>>,
          eff |-> IF i <= Len(e.counts) THEN e.counts[i] ELSE IntV(0)]]

\* step 2: a row with an empty label and a count of 0 or "" is skipped
SkipRow(row) ==
  Strip(Str(row.cat)) = <<>> /\ (row.eff = IntV(0) \/ row.eff = StrV(<<>>))

\* step 2: int(v) where it succeeds, v as it is otherwise
StoredCount(v) == IF CanInt(v) THEN IntV(ToInt(v)) ELSE v

\* step 2: the extraction loop over the rows of the data editor
RECURSIVE ExtractRows(_)
ExtractRows(data) ==
  IF data = <<>> THEN [cats |-> <<>>, counts |-> <<>>]
  ELSE LET rest == ExtractRows(Tail(data))
           row == Head(data)
       IN  IF SkipRow(row) THEN rest
           ELSE [cats |-> <<Strip(Str(row.cat))>> \o rest.cats,
                 counts |-> <<StoredCount(row.eff)>> \o rest.counts]

Step2Bind(e, data) ==
  [e EXCEPT !.categories = ExtractRows(data).cats,
            !.counts = ExtractRows(data).counts]

Stats(e) == analyze_data(e.categories, e.counts).stats

\* step 3: the lower bound of the number input of the top
TopMinValue(e) == Max2(1, Stats(e).max + 1)

\* step 3: the number input of the top raises when its default value is
\* below its min_value, and the script run ends there
Step3Raises(e) == Stats(e).rounded_top < TopMinValue(e)

\* step 3: the number inputs hold their defaults until the user changes them
Step3Bind(e) ==
  IF Step3Raises(e) THEN e
  ELSE [e EXCEPT !.scale_choice =
                    IF @ = EmptyDict
                    THEN [step |-> Stats(e).suggested_step, top |-> Stats(e).rounded_top]
                    ELSE @,
                 !.scale_justif = OrEmpty(@)]

Step4Bind(e) ==
  [e EXCEPT !.checklist =
               [k \in {CHECKLIST_KEYS[i] : i \in 1..Len(CHECKLIST_KEYS)} |-> Get(@, k, FALSE)],
            !.improvement = OrEmpty(@)]

Step5Bind(e) == [e EXCEPT !.reflection = OrEmpty(@)]

\* one run of the script with no button pressed
Render(e) ==
  CASE e.step = 1 -> Step1Bind(e)
    [] e.step = 2 -> Step2Bind(e, BaseRows(e))
    [] e.step = 3 -> Step3Bind(e)
    [] e.step = 4 -> Step4Bind(e)
    [] OTHER -> Step5Bind(e)

(***************************************************************************)
(* Step 5: the report                                                      *)
(***************************************************************************)
\* the dash of the title is written by its code point
REPORT_TITLE ==
  <<"#", " ", "R", "a", "p", "p", "o", "r", "t", " ", "d", "'", "a", "u",
    "t", "o", "-", "c", "o", "n", "t", "r", "ô", "l", "e", " ", "\\u2014", " ",
    "D", "i", "a", "g", "r", "a", "m", "m", "e", " ", "e", "n", " ", "b",
    "a", "r", "r", "e", "s">>

REPORT_GOAL ==
  <<"Q", "u", "e", "s", "t", "i", "o", "n", " ", "d", "'", "é", "t", "u",
    "d", "e", " ", ":", " ">>

REPORT_VARIABLE ==
  <<"V", "a", "r", "i", "a", "b", "l", "e", " ", ":", " ">>

REPORT_NATURE ==
  <<" ", " ", "·", " ", " ", "N", "a", "t", "u", "r", "e", " ", ":", " ">>

REPORT_DATA ==
  <<"C", "a", "t", "é", "g", "o", "r", "i", "e", "s", " ", "e", "t", " ",
    "e", "f", "f", "e", "c", "t", "i", "f", "s", " ", ":">>

REPORT_STEP ==
  <<"É", "c", "h", "e", "l", "l", "e", " ", "c", "h", "o", "i", "s", "i",
    "e", " ", ":", " ", "p", "a", "s", " ", "=", " ">>

REPORT_TOP ==
  <<",", " ", "s", "o", "m", "m", "e", "t", " ", "=", " ">>

REPORT_JUSTIF ==
  <<"J", "u", "s", "t", "i", "f", "i", "c", "a", "t", "i", "o", "n", " ",
    ":", " ">>

REPORT_CHECKLIST ==
  <<"C", "h", "e", "c", "k", "l", "i", "s", "t", " ", ":">>

REPORT_IMPROVEMENT ==
  <<"A", "m", "é", "l", "i", "o", "r", "a", "t", "i", "o", "n", " ", "p",
    "r", "i", "o", "r", "i", "t", "a", "i", "r", "e", " ", ":", " ">>

REPORT_REFLECTION ==
  <<"R", "é", "f", "l", "e", "x", "i", "o", "n", " ", "f", "i", "n", "a",
    "l", "e", " ", ":", " ">>

REPORT_REMINDER ==
  <<"(", "R", "a", "p", "p", "e", "l", " ", ":", " ", "l", "e", " ", "g",
    "r", "a", "p", "h", "i", "q", "u", "e", " ", "d", "o", "i", "t", " ",
    "ê", "t", "r", "e", " ", "t", "r", "a", "c", "é", " ", "p", "a", "r",
    " ", "l", "'", "é", "l", "è", "v", "e", " ", "d", "a", "n", "s", " ",
    "l", "'", "o", "u", "t", "i", "l", " ", "d", "e", " ", "s", "o", "n",
    " ", "c", "h", "o", "i", "x", ".", ")">>

MARK_OK ==
  <<"O", "K">>

MARK_REVIEW ==
  <<"À", " ", "r", "e", "v", "o", "i", "r">>

\* the keys and labels of the checklist of the report, in the order of the dict
REPORT_ITEMS ==
  << [key |-> "title", label |-> <<"T", "i", "t", "r", "e">>],
     [key |-> "x", label |-> <<"A", "x", "e", " ", "X">>],
     [key |-> "y", label |-> <<"A", "x", "e", " ", "Y">>],
     [key |-> "bars", label |-> <<"B", "a", "r", "r", "e", "s">>],
     [key |-> "scale", label |-> <<"É", "c", "h", "e", "l", "l", "e">>],
     [key |-> "source", label |-> <<"S", "o", "u", "r", "c", "e">>],
     [key |-> "legend", label |-> <<"L", "é", "g", "e", "n", "d", "e">>] >>

\* str(n) of a natural number
RECURSIVE NatText(_)
NatText(n) ==
  IF n < 10 THEN <<Digits[n + 1]>> ELSE NatText(n \div 10) \o <<Digits[(n % 10) + 1]>>

\* str(n) of an integer
IntText(n) == IF n < 0 THEN <<"-">> \o NatText(0 - n) ELSE NatText(n)

\* f"{v}" of a stored count
CountText(v) ==
  CASE v.kind = "int" -> IntText(v.n)
    [] v.kind = "str" -> v.s
    [] OTHER -> Str(NoneText)

\* f"{engine.var_type}"
VarTypeText(v) ==
  CASE v = "qualitative" ->
         <<"q", "u", "a", "l", "i", "t", "a", "t", "i", "v", "e">>
    [] v = "quantitative_discrete" ->
         <<"q", "u", "a", "n", "t", "i", "t", "a", "t", "i", "v", "e", "_",
           "d", "i", "s", "c", "r", "e", "t", "e">>
    [] OTHER -> Str(NoneText)

\* f"{engine.scale_choice.get(k, '')}"
ScaleText(e, k) == IF k \in DOMAIN e.scale_choice THEN IntText(e.scale_choice[k]) ELSE <<>>

\* zip(engine.categories, engine.counts)
Zip(categories, counts) ==
  [i \in 1..(IF Len(categories) <= Len(counts) THEN Len(categories) ELSE Len(counts)) |->
     [c |-> categories[i], v |-> counts[i]]]

\* the mark is OK for every key the checklist holds, whatever its value
ChecklistMark_key_present(e, key) ==
  IF key \in DOMAIN e.checklist THEN MARK_OK ELSE MARK_REVIEW

\* 'OK' if engine.checklist.get(key) else 'À revoir'
ChecklistMark(e, key) == IF Get(e.checklist, key, FALSE) THEN MARK_OK ELSE MARK_REVIEW

report_lines(e) ==
  << REPORT_TITLE,
     <<>>,
     REPORT_GOAL \o Str(e.goal),
     REPORT_VARIABLE \o Str(e.variable) \o REPORT_NATURE \o VarTypeText(e.var_type),
     <<>>,
     REPORT_DATA >>
  \o [i \in 1..Len(Zip(e.categories, e.counts)) |->
        <<"-", " ">> \o Str(Zip(e.categories, e.counts)[i].c) \o <<" ", ":", " ">>
          \o CountText(Zip(e.categories, e.counts)[i].v)]
  \o << <<>>,
        REPORT_STEP \o ScaleText(e, "step") \o REPORT_TOP \o ScaleText(e, "top"),
        REPORT_JUSTIF \o Str(e.scale_justif),
        <<>>,
        REPORT_CHECKLIST >>
  \o [k \in 1..Len(REPORT_ITEMS) |->
        <<"-", " ">> \o REPORT_ITEMS[k].label \o <<" ", ":", " ">>
          \o ChecklistMark(e, REPORT_ITEMS[k].key)]
  \o << <<>>,
        REPORT_IMPROVEMENT \o Str(e.improvement),
        <<>>,
        REPORT_REFLECTION \o Str(e.reflection),
        <<>>,
        REPORT_REMINDER >>

\* "\n".join(lines)
RECURSIVE Join(_)
Join(lines) ==
  IF lines = <<>> THEN <<>>
  ELSE IF Len(lines) = 1 THEN lines[1]
  ELSE lines[1] \o <<"\n">> \o Join(Tail(lines))

report(e) == Join(report_lines(e))

(***************************************************************************)
(* The buttons                                                             *)
(***************************************************************************)
ERROR_STEP ==
  <<"Merci de renseigner la question et la variable.",
    "Il faut au moins 2 catégories et un effectif par catégorie.",
    "Écris une justification et vérifie que le sommet dépasse l'effectif max.",
    "Coche au moins un élément prêt.">>

HINT_TOPIC == <<"data", "data", "scale", "labels">>

\* the test of the validate button of each step
\* the test of step 1 without the variable
Step1Ok_goal_only(e) == ~(~Truthy(e.goal))

Step1Ok(e) == ~(~Truthy(e.goal) \/ ~Truthy(e.variable))

\* the test of step 2 without the minimum of two categories
Step2Ok_no_minimum(e) == ~(Len(e.categories) # Len(e.counts))

Step2Ok(e) == ~(Len(e.categories) < 2 \/ Len(e.categories) # Len(e.counts))

Step3Ok(e) == ~(~Truthy(e.scale_justif) \/ Get(e.scale_choice, "top", 0) <= Stats(e).max)

\* a step 4 that any checklist passes
Step4Ok_any_checklist(e) == TRUE

Step4Ok(e) == \E k \in DOMAIN e.checklist : e.checklist[k]

StepOk(e) ==
  CASE e.step = 1 -> Step1Ok(e)
    [] e.step = 2 -> Step2Ok(e)
    [] e.step = 3 -> Step3Ok(e)
    [] OTHER -> Step4Ok(e)

\* a validate that skips a step
NextStep_skip(e) == e.step + 2

\* the step reached when the test passes
NextStep(e) == e.step + 1

\* the buttons of the current step are drawn
HasButtons(e) == e.step \in 1..4 /\ ~(e.step = 3 /\ Step3Raises(e))

(***************************************************************************)
(* Inputs                                                                  *)
(***************************************************************************)
MaxRows == 2

MaxTopAbove == 0

TextOk == <<"o", "k">>

TextPlot == <<"P", "l", "o", "t", " ", "i", "t">>

GoalInputs == {<<>>, TextPlot}

VariableInputs == {<<>>, TextOk}

FreeInputs == {<<>>, TextOk, TextPlot}

JustifInputs == {<<>>, TextPlot}

ImprovementInputs == {<<>>, TextPlot}

ReflectionInputs == {<<>>, TextPlot}

\* rows of the data editor: an untouched row, a filled row, a row whose
\* count is not a number, a row with a negative count
DataRows ==
  { [cat |-> <<>>, eff |-> IntV(0)],
    [cat |-> <<" ", "a">>, eff |-> IntV(12)],
    [cat |-> <<"A">>, eff |-> NoneV],
    [cat |-> NoneText, eff |-> IntV(-1)] }

DataTables == UNION {[1..n -> DataRows] : n \in 0..MaxRows}

StepInputs(e) == {1, Stats(e).suggested_step}

TopInputs(e) == (TopMinValue(e)..(TopMinValue(e) + MaxTopAbove)) \cup {Stats(e).rounded_top}

(***************************************************************************)
(* Initial state: a new session and the first run of the script            *)
(***************************************************************************)
StartSession ==
  /\ engine = Render(SessionState)
  /\ user_free = <<>>
  /\ toast = None
  /\ error = None
  /\ info = None
  /\ granted = FALSE
  /\ last = "start"

\* no engine function is called on its own while the wizard runs
NoCall ==
  [fn |-> "none", done |-> FALSE, raised |-> FALSE, categories |-> <<>>, counts |-> <<>>, text |-> <<>>,
   issues |-> <<>>, stats |-> [total |-> 0, max |-> 0, suggested_step |-> 0, rounded_top |-> 0],
   message |-> None]

Init == StartSession /\ call = NoCall

\* a run in which no button is pressed: nothing is toasted, no error shown
Quiet(e, q) ==
  /\ engine' = e
  /\ user_free' = q
  /\ toast' = None
  /\ error' = None
  /\ info' = IF e.step = 1 THEN FreeAnswer(q) ELSE None
  /\ last' = "edit"
  /\ UNCHANGED <<granted, call>>

(***************************************************************************)
(* Step 1                                                                  *)
(***************************************************************************)
EditGoal ==
  /\ engine.step = 1
  /\ \E g \in GoalInputs : Quiet(Step1Bind([engine EXCEPT !.goal = g]), user_free)

EditVariable ==
  /\ engine.step = 1
  /\ \E v \in VariableInputs : Quiet(Step1Bind([engine EXCEPT !.variable = v]), user_free)

ChooseVarType ==
  /\ engine.step = 1
  /\ \E i \in 1..Len(VAR_TYPES) : Quiet(Step1Bind([engine EXCEPT !.var_type = VAR_TYPES[i]]), user_free)

AskFree ==
  /\ engine.step = 1
  /\ \E q \in FreeInputs : Quiet(Step1Bind(engine), q)

(***************************************************************************)
(* Step 2                                                                  *)
(***************************************************************************)
EditData ==
  /\ engine.step = 2
  /\ \E data \in DataTables : Quiet(Step2Bind(engine, data), user_free)

(***************************************************************************)
(* Step 3                                                                  *)
(***************************************************************************)
EditScale ==
  /\ engine.step = 3
  /\ ~Step3Raises(engine)
  /\ \E s \in StepInputs(engine), t \in TopInputs(engine) :
        Quiet(Step3Bind([engine EXCEPT !.scale_choice = [step |-> s, top |-> t]]), user_free)

EditJustif ==
  /\ engine.step = 3
  /\ ~Step3Raises(engine)
  /\ \E j \in JustifInputs : Quiet(Step3Bind([engine EXCEPT !.scale_justif = j]), user_free)

(***************************************************************************)
(* Step 4                                                                  *)
(***************************************************************************)
ToggleCheck ==
  /\ engine.step = 4
  /\ \E k \in DOMAIN engine.checklist :
        Quiet(Step4Bind([engine EXCEPT !.checklist[k] = ~@]), user_free)

EditImprovement ==
  /\ engine.step = 4
  /\ \E t \in ImprovementInputs : Quiet(Step4Bind([engine EXCEPT !.improvement = t]), user_free)

(***************************************************************************)
(* Step 5                                                                  *)
(***************************************************************************)
EditReflection ==
  /\ engine.step = 5
  /\ \E t \in ReflectionInputs : Quiet(Step5Bind([engine EXCEPT !.reflection = t]), user_free)

(***************************************************************************)
(* The hint button of steps 1 to 4                                         *)
(***************************************************************************)
Hint ==
  /\ HasButtons(engine)
  /\ LET h == give_hint(Render(engine), HINT_TOPIC[engine.step])
     IN  /\ engine' = h.state
         /\ toast' = h.text
         /\ granted' = (granted \/ h.text # HINT_FALLBACK)
  /\ error' = None
  /\ info' = IF engine.step = 1 THEN FreeAnswer(user_free) ELSE None
  /\ last' = "hint"
  /\ UNCHANGED <<user_free, call>>

(***************************************************************************)
(* The validate button of steps 1 to 4: the on_click callback reset_hints  *)
(* runs first, then the script; when the test passes the step is advanced  *)
(* and the script is run again                                             *)
(***************************************************************************)
Validate ==
  /\ HasButtons(engine)
  /\ LET e == Render(reset_hints(engine))
     IN  IF StepOk(e)
         THEN /\ engine' = Render([e EXCEPT !.step = NextStep(e)])
              /\ error' = None
              /\ user_free' = <<>>
              /\ info' = None
              /\ granted' = FALSE
         ELSE /\ engine' = e
              /\ error' = ERROR_STEP[e.step]
              /\ info' = (IF e.step = 1 THEN FreeAnswer(user_free) ELSE None)
              /\ UNCHANGED <<user_free, granted>>
  /\ toast' = None
  /\ last' = "validate"
  /\ UNCHANGED call

(***************************************************************************)
(* The reset button of the sidebar and the restart button of step 5: a new *)
(* SessionState, then the script is run again                              *)
(***************************************************************************)
\* a reset that goes back to step 1 and keeps the session
NewSession_keep_session ==
  /\ engine' = Render([engine EXCEPT !.step = 1])
  /\ user_free' = <<>>
  /\ toast' = None
  /\ error' = None
  /\ info' = None
  /\ granted' = FALSE

NewSession ==
  /\ engine' = Render(SessionState)
  /\ user_free' = <<>>
  /\ toast' = None
  /\ error' = None
  /\ info' = None
  /\ granted' = FALSE

SidebarReset == NewSession /\ last' = "reset" /\ UNCHANGED call

Restart == engine.step = 5 /\ NewSession /\ last' = "restart" /\ UNCHANGED call

Next ==
  \/ EditGoal
  \/ EditVariable
  \/ ChooseVarType
  \/ AskFree
  \/ EditData
  \/ EditScale
  \/ EditJustif
  \/ ToggleCheck
  \/ EditImprovement
  \/ EditReflection
  \/ Hint
  \/ Validate
  \/ SidebarReset
  \/ Restart

Spec == Init /\ [][Next]_vars

(***************************************************************************)
(* The engine functions called on their own: the arguments are drawn at    *)
(* the start, the call fills in the result                                 *)
(***************************************************************************)
MaxArgs == 2

MaxScaleCount == 50

AnalyzeLabels == {<<>>, <<" ">>, <<"a">>, <<"A">>, <<" ", "a", " ">>, <<"b">>}

AnalyzeCounts == {IntV(-1), IntV(0), IntV(1), StrV(<<"7">>), StrV(<<"x">>), NoneV}

SeqsUpTo(S, n) == UNION {[1..k -> S] : k \in 0..n}

\* lists of labels and of counts, and a single count of every size for the
\* scale suggestion
AnalyzeInputs ==
  {[categories |-> c, counts |-> v] :
     c \in SeqsUpTo(AnalyzeLabels, MaxArgs), v \in SeqsUpTo(AnalyzeCounts, MaxArgs)}
  \cup {[categories |-> <<<<"a">>>>, counts |-> <<IntV(m)>>] : m \in 0..MaxScaleCount}

UpperChar(c) ==
  IF \E i \in 1..Len(LowerChars) : LowerChars[i] = c
  THEN UpperChars[CHOOSE i \in 1..Len(LowerChars) : LowerChars[i] = c]
  ELSE c

Upper(t) == [i \in 1..Len(t) |-> UpperChar(t[i])]

Capitalize(t) == [i \in 1..Len(t) |-> IF i = 1 THEN UpperChar(t[i]) ELSE t[i]]

TextPlease == <<"p", "l", "e", "a", "s", "e", " ">>

TextForMe == <<" ", "t", "h", "i", "s", " ", "f", "o", "r", " ", "m", "e">>

TextGoodTitle ==
  <<"w", "h", "a", "t", " ", "c", "o", "u", "n", "t", "s", " ", "a", "s", " ", "a", " ",
    "g", "o", "o", "d", " ", "t", "i", "t", "l", "e", "?">>

\* the banned phrases in three casings, each phrase cut short by a letter,
\* alone or inside a sentence, and a harmless question
GuardrailTexts ==
  LET mids == BANNED_PHRASES
              \cup {Upper(b) : b \in BANNED_PHRASES}
              \cup {Capitalize(b) : b \in BANNED_PHRASES}
              \cup {SubSeq(b, 1, Len(b) - 1) : b \in BANNED_PHRASES}
  IN  {pre \o mid \o post : pre \in {<<>>, TextPlease}, mid \in mids, post \in {<<>>, TextForMe}}
      \cup {<<>>, TextGoodTitle}

InitEngine ==
  /\ StartSession
  /\ \/ \E a \in AnalyzeInputs :
          call = [NoCall EXCEPT !.fn = "analyze_data", !.categories = a.categories,
                                !.counts = a.counts]
     \/ \E t \in GuardrailTexts :
          call = [NoCall EXCEPT !.fn = "guardrails", !.text = t]

CallAnalyzeData ==
  /\ call.fn = "analyze_data"
  /\ ~call.done
  /\ call' = IF analyze_data_raises(call.categories, call.counts)
             THEN [call EXCEPT !.done = TRUE, !.raised = TRUE]
             ELSE [call EXCEPT !.done = TRUE,
                               !.issues = analyze_data(call.categories, call.counts).issues,
                               !.stats = analyze_data(call.categories, call.counts).stats]
  /\ UNCHANGED <<engine, user_free, toast, error, info, granted, last>>

CallGuardrails ==
  /\ call.fn = "guardrails"
  /\ ~call.done
  /\ call' = [call EXCEPT !.done = TRUE, !.message = guardrails(call.text)]
  /\ UNCHANGED <<engine, user_free, toast, error, info, granted, last>>

NextEngine ==
  \/ CallAnalyzeData
  \/ CallGuardrails

SpecEngine == InitEngine /\ [][NextEngine]_vars

(***************************************************************************)
(* Properties                                                              *)
(***************************************************************************)
TopicHints == {HINT_SCALE, HINT_LABELS, HINT_DATA, HINT_DEFAULT}

\* C1: during one stay on a step, whatever hint requests and validate
\* attempts are made, give_hint returns a topic-specific hint at most once:
\* once one was returned, every further request of the stay returns the
\* fallback.
C1_OneTopicHintPerStay == [][(granted /\ last' = "hint") => toast' = HINT_FALLBACK]_vars

\* C2: hints_given is always 0 or 1; a hint request with hints_given = 0
\* sets it to 1 and returns the topic-specific hint of the step, a request
\* with hints_given = 1 returns the fallback and leaves it unchanged, so two
\* consecutive requests give the topic hint and then the fallback.
C2_HintCap ==
  /\ [](engine.hints_given \in {0, 1} /\ engine.hints_given <= MAX_HINTS_PER_STEP)
  /\ [][last' = "hint" =>
          IF engine.hints_given = 0
          THEN /\ engine'.hints_given = 1
               /\ toast' = TopicHint(HINT_TOPIC[engine.step])
               /\ toast' \in TopicHints
          ELSE /\ engine'.hints_given = engine.hints_given
               /\ toast' = HINT_FALLBACK]_vars
  /\ [][(last = "hint" /\ toast \in TopicHints /\ last' = "hint") => toast' = HINT_FALLBACK]_vars

\* C2 witness: a second request on the same step got the fallback
C2_Witness == toast = HINT_FALLBACK /\ engine.hints_given = 1 /\ granted

\* the guards of the four steps as the step table states them
NonEmptyText(t) == t # NoneText /\ Len(t) > 0

GuardOfStep(e) ==
  CASE e.step = 1 -> NonEmptyText(e.goal) /\ NonEmptyText(e.variable)
    [] e.step = 2 -> Len(e.categories) >= 2 /\ Len(e.categories) = Len(e.counts)
    [] e.step = 3 -> /\ NonEmptyText(e.scale_justif)
                     /\ "top" \in DOMAIN e.scale_choice
                     /\ e.scale_choice.top > analyze_data(e.categories, e.counts).stats.max
    [] e.step = 4 -> TRUE \in {e.checklist[k] : k \in DOMAIN e.checklist}
    [] OTHER -> FALSE

\* C3: a validate action on step s sets step to s+1 if and only if the guard
\* of step s holds, and leaves step unchanged when it does not.
C3_ValidateIffGuard ==
  [][last' = "validate" =>
       /\ (engine'.step = engine.step + 1) <=> GuardOfStep(engine)
       /\ ~GuardOfStep(engine) => engine'.step = engine.step]_vars

\* C3 witness: steps 1 and 2 were validated and step 3 was refused
C3_Witness == engine.step = 3 /\ error = ERROR_STEP[3]

\* C4: step is always in 1..5; every transition keeps step, adds exactly 1
\* to it (only a validate does) or sets it to 1 (only a reset does, from a
\* later step); step 5 is left only to step 1.
C4_LinearSteps ==
  /\ [](engine.step \in 1..5)
  /\ [][\/ engine'.step = engine.step
        \/ engine'.step = engine.step + 1 /\ last' = "validate"
        \/ engine'.step = 1 /\ last' \in {"reset", "restart"}]_vars
  /\ [][engine.step = 5 => engine'.step \in {5, 1}]_vars

\* C4 witness: the last step was reached
C4_Witness == engine.step = 5 /\ engine.reflection # <<>>

\* the dataclass defaults of SessionState
DocumentedDefaults ==
  [step |-> 1, hints_given |-> 0, goal |-> NoneText, variable |-> NoneText,
   var_type |-> None, categories |-> <<>>, counts |-> <<>>,
   scale_choice |-> EmptyDict, scale_justif |-> NoneText,
   checklist |-> EmptyDict, improvement |-> NoneText, reflection |-> NoneText]

\* C5 as stated: a full reset leaves every field of the session at its
\* documented default, all text fields unset.
C5_ResetToDefaults == [][last' \in {"reset", "restart"} => engine' = DocumentedDefaults]_vars

\* C5 amended: after a full reset the session is that of a new session after
\* its first run: step 1, no hint given, empty categories, counts,
\* scale_choice and checklist, scale_justif, improvement and reflection
\* unset, and goal and variable the empty text and var_type "qualitative",
\* as the widgets of step 1 write them.
C5_ResetToFreshSession ==
  [][last' \in {"reset", "restart"} =>
       /\ engine' = [DocumentedDefaults EXCEPT !.goal = <<>>, !.variable = <<>>,
                                               !.var_type = "qualitative"]
       /\ user_free' = <<>>
       /\ granted' = FALSE]_vars

\* C5 witness: the session was restarted from step 5, all data entered
C5_Witness == last = "restart" /\ engine.step = 1

IntCounts(e) == {e.counts[i].n : i \in {j \in 1..Len(e.counts) : e.counts[j].kind = "int"}}

\* C6: in every state with step >= 4 the chosen top is strictly greater than
\* the largest count entered.
C6_TopExceedsMax ==
  engine.step >= 4 =>
    /\ "top" \in DOMAIN engine.scale_choice
    /\ \A c \in IntCounts(engine) : engine.scale_choice.top > c

\* the data of the current step is invalid: an empty required field, a
\* count/category length mismatch, a count that is no integer, a top that
\* does not exceed the max
InvalidStepData(e) ==
  CASE e.step = 1 -> ~NonEmptyText(e.goal) \/ ~NonEmptyText(e.variable)
    [] e.step = 2 -> \/ Len(e.categories) # Len(e.counts)
                     \/ \E i \in 1..Len(e.counts) : ~CanInt(e.counts[i])
    [] e.step = 3 -> \/ ~NonEmptyText(e.scale_justif)
                     \/ Get(e.scale_choice, "top", 0)
                          <= analyze_data(e.categories, e.counts).stats.max
    [] OTHER -> FALSE

\* C7: the wizard never advances from a step whose data is invalid; a
\* validate on step 2 does not reach step 3 while a count cannot be coerced
\* to an integer.
C7_InvalidDataBlocks ==
  [][engine'.step = engine.step + 1 => ~InvalidStepData(engine)]_vars

\* C8: a validate whose guard fails changes nothing of the session state.
C8_FailedValidateNoEffect == [][(last' = "validate" /\ error' # None) => engine' = engine]_vars

FreeTextFields(e) ==
  {e.goal, e.variable, e.scale_justif, e.improvement, e.reflection} \ {NoneText}

HasBannedPhrase(t) == \E b \in BANNED_PHRASES : Contains(Lower(t), b)

\* C9: whenever one of the free-text fields (study question, variable, free
\* question, scale justification, priority improvement, final reflection)
\* contains a banned phrase, the refusal message is produced.
C9_GuardrailEverywhere ==
  (\E t \in FreeTextFields(engine) \cup {user_free} : HasBannedPhrase(t)) => info = REFUSAL

\* C10: in every state with step >= 3, categories and counts have the same
\* length, which is at least 2.
C10_RowsCorrespond ==
  engine.step >= 3 =>
    Len(engine.categories) = Len(engine.counts) /\ Len(engine.categories) >= 2

\* C10 witness: step 2 was validated with a table that had a skipped row
C10_Witness ==
  /\ engine.step >= 3
  /\ Len(engine.categories) = 2
  /\ \E i \in 1..2 : engine.counts[i].kind # "int"

(***************************************************************************)
(* Properties of the engine functions called on their own                  *)
(***************************************************************************)
Analyzed == call.fn = "analyze_data" /\ call.done

IntegerCount(v) == v.kind = "int" \/ (v.kind = "str" /\ CanInt(v))

AllCountsCoerce(counts) == \A i \in 1..Len(counts) : IntegerCount(counts[i])

SumOfCounts(counts) == Sum([i \in 1..Len(counts) |-> ToInt(counts[i])])

SomeNegative(counts) == \E i \in 1..Len(counts) : ToInt(counts[i]) < 0

\* two labels that are not empty once trimmed are equal ignoring case
DuplicateLabels(categories) ==
  \E i, j \in 1..Len(categories) :
     /\ i < j
     /\ Strip(categories[i]) # <<>>
     /\ Lower(Strip(categories[i])) = Lower(Strip(categories[j]))

\* C11: when every count is a valid non-negative integer, the total is > 0
\* and no two non-empty trimmed labels are equal ignoring case, analyze_data
\* returns an empty issues list.
C11_CleanDataNoIssue ==
  ( /\ Analyzed
    /\ AllCountsCoerce(call.counts)
    /\ ~SomeNegative(call.counts)
    /\ SumOfCounts(call.counts) > 0
    /\ ~DuplicateLabels(call.categories) )
  => call.issues = <<>>

\* C11 witness: clean data with two blank labels and a count given as text
C11_Witness ==
  /\ Analyzed
  /\ call.categories = <<<<>>, <<" ">>>>
  /\ call.counts = <<StrV(<<"7">>), IntV(0)>>
  /\ call.issues = <<>>

IssueSet == {call.issues[i] : i \in 1..Len(call.issues)}

\* C12: analyze_data never raises; when some count cannot be coerced to an
\* integer it returns the non-integer issue with total = 0, max = 0,
\* suggested_step = 1 and rounded_top = 10, and neither the negative-counts
\* nor the null-sum issue.
C12_CoercionFailureDegrades ==
  Analyzed =>
    /\ ~call.raised
    /\ ~AllCountsCoerce(call.counts) =>
         /\ ISSUE_NON_INTEGER \in IssueSet
         /\ call.stats = [total |-> 0, max |-> 0, suggested_step |-> 1, rounded_top |-> 10]
         /\ ISSUE_NEGATIVE \notin IssueSet
         /\ ISSUE_NULL_SUM \notin IssueSet

\* C12 witness: a text that is no number next to a negative count
C12_Witness ==
  /\ Analyzed
  /\ call.categories = <<<<"A">>, <<"b">>>>
  /\ call.counts = <<StrV(<<"x">>), IntV(-1)>>
  /\ call.issues = <<ISSUE_NON_INTEGER>>

\* the largest of the coerced counts of a non-empty list
MaxOfCounts(counts) ==
  CHOOSE m \in {ToInt(counts[i]) : i \in 1..Len(counts)} :
    \A j \in 1..Len(counts) : ToInt(counts[j]) <= m

ScaleCall == Analyzed /\ call.counts # <<>> /\ AllCountsCoerce(call.counts)

Abs(x) == IF x < 0 THEN -x ELSE x

\* k is round(m / 8): the integer nearest to m / 8, the even one of two at
\* equal distance
IsRound8(m, k) ==
  \/ Abs(8 * k - m) < 4
  \/ Abs(8 * k - m) = 4 /\ k % 2 = 0

\* C13: for a positive maximum count m, suggested_step = max(1, round(m / 8))
\* and rounded_top = (floor(m / suggested_step) + 1) * suggested_step, which
\* is strictly above m (m = 37 gives step 5 and top 40); for m = 0 the result
\* is suggested_step = 1 and rounded_top = 10.
C13_ScaleSuggestion ==
  ScaleCall =>
    LET m == MaxOfCounts(call.counts)
        step == call.stats.suggested_step
        top == call.stats.rounded_top
    IN  /\ m > 0 =>
             /\ step >= 1
             /\ IsRound8(m, step) \/ (step = 1 /\ IsRound8(m, 0))
             /\ top % step = 0 /\ top - step <= m
             /\ top > m
        /\ m = 37 => step = 5 /\ top = 40
        /\ m = 0 => step = 1 /\ top = 10

\* C13 witness: the worked example, a maximum of 37
C13_Witness ==
  /\ Analyzed
  /\ call.counts = <<IntV(37)>>
  /\ call.stats.max = 37
  /\ call.stats.suggested_step = 5
  /\ call.stats.rounded_top = 40

GuardrailsCalled == call.fn = "guardrails" /\ call.done

\* phrase b stands in text t from position i on, letter case apart
OccursAt(t, b, i) ==
  /\ i + Len(b) - 1 <= Len(t)
  /\ \A k \in 1..Len(b) : LowerChar(t[i + k - 1]) = b[k]

\* C14: guardrails(text) returns the fixed refusal message if and only if
\* the text, letter case apart, contains one of the banned phrases as a
\* substring, and None otherwise; the session state is left as it was.
C14_GuardrailsIffBanned ==
  GuardrailsCalled =>
    /\ IF \E b \in BANNED_PHRASES : \E i \in 1..Len(call.text) : OccursAt(call.text, b, i)
       THEN call.message = REFUSAL
       ELSE call.message = None
    /\ engine = Render(SessionState)
    /\ user_free = <<>>

\* C14 witness: "please PLOT this for me" is refused
C14_Witness ==
  /\ GuardrailsCalled
  /\ call.text = TextPlease \o <<"P", "L", "O", "T">> \o TextForMe
  /\ call.message = REFUSAL

\* text.split("\n")
RECURSIVE SplitLines(_)
SplitLines(text) ==
  IF \E i \in 1..Len(text) : text[i] = "\n"
  THEN LET i == CHOOSE j \in 1..Len(text) :
                  text[j] = "\n" /\ \A h \in 1..(j - 1) : text[h] # "\n"
       IN  <<SubSeq(text, 1, i - 1)>> \o SplitLines(SubSeq(text, i + 1, Len(text)))
  ELSE <<text>>

StartsWith(t, p) == Len(p) <= Len(t) /\ SubSeq(t, 1, Len(p)) = p

EndsWith(t, p) == Len(p) <= Len(t) /\ SubSeq(t, Len(t) - Len(p) + 1, Len(t)) = p

ItemOfKey(key) ==
  CHOOSE k \in 1..Len(REPORT_ITEMS) : REPORT_ITEMS[k].key = key

\* C15: the report built at step 5 holds exactly one line per (category,
\* count) pair, in input order, and the seven checklist items in the order
\* title, x, y, bars, scale, source, legend, each marked OK exactly when its
\* checklist value is true and "À revoir" (needs review) otherwise; the text
\* is a function of the session state only.
C15_ReportLines ==
  engine.step = 5 =>
    LET lines == SplitLines(report(engine))
        n == Len(engine.categories)
        keys == <<"title", "x", "y", "bars", "scale", "source", "legend">>
    IN  /\ Len(lines) = 24 + n
        /\ lines[6] = REPORT_DATA
        /\ \A i \in 1..n :
             lines[6 + i] = <<"-", " ">> \o engine.categories[i] \o <<" ", ":", " ">>
                              \o CountText(engine.counts[i])
        /\ lines[7 + n] = <<>>
        /\ lines[11 + n] = REPORT_CHECKLIST
        /\ \A k \in 1..7 :
             /\ StartsWith(lines[11 + n + k],
                           <<"-", " ">> \o REPORT_ITEMS[ItemOfKey(keys[k])].label \o <<" ", ":", " ">>)
             /\ ItemOfKey(keys[k]) = k
             /\ EndsWith(lines[11 + n + k], MARK_OK) <=> engine.checklist[keys[k]] = TRUE
             /\ EndsWith(lines[11 + n + k], MARK_REVIEW) <=> engine.checklist[keys[k]] # TRUE
        /\ lines[19 + n] = <<>>

\* C15 witness: a report of two data rows with one item checked, one not
C15_Witness ==
  /\ engine.step = 5
  /\ Len(engine.categories) = 2
  /\ engine.checklist["x"] /\ ~engine.checklist["title"]
  /\ SplitLines(report(engine))[7] = <<"-", " ", "a", " ", ":", " ", "1", "2">>
  /\ SplitLines(report(engine))[14] = <<"-", " ", "T", "i", "t", "r", "e", " ", ":", " ", "À", " ", "r", "e", "v", "o", "i", "r">>

\* C16: right after every validate that advances from step s to s + 1,
\* hints_given is 0, whatever it was before, so the next hint asked for is a
\* topic hint.
C16_AdvanceResetsHints ==
  [][engine'.step = engine.step + 1 =>
       /\ last' = "validate"
       /\ engine'.hints_given = 0
       /\ ~granted']_vars

\* C16 witness: step 4 has just been entered by a validate, no hint taken
C16_Witness ==
  /\ last = "validate"
  /\ engine.step = 4
  /\ error = None
  /\ engine.hints_given = 0

ISSUE_ORDER == <<ISSUE_DUPLICATE, ISSUE_NON_INTEGER, ISSUE_NEGATIVE, ISSUE_NULL_SUM>>

IssueRank(msg) == CHOOSE k \in 1..4 : ISSUE_ORDER[k] = msg

\* the issues are distinct known messages in the order duplicate,
\* non-integer, negative, null-sum
IssuesInOrder(issues) ==
  /\ \A i \in 1..Len(issues) : \E k \in 1..4 : ISSUE_ORDER[k] = issues[i]
  /\ \A i, j \in 1..Len(issues) : i < j => IssueRank(issues[i]) < IssueRank(issues[j])

\* C17: when every count coerces to an integer, the null-sum issue is
\* emitted if and only if the sum of the counts is 0 (the empty list of
\* counts included), the negative-counts issue if and only if some count is
\* below 0, and the issues come in the order duplicate, non-integer,
\* negative, null-sum.
C17_IssuesOfIntegerCounts ==
  (Analyzed /\ AllCountsCoerce(call.counts)) =>
    /\ ISSUE_NULL_SUM \in IssueSet <=> SumOfCounts(call.counts) = 0
    /\ ISSUE_NEGATIVE \in IssueSet <=> SomeNegative(call.counts)
    /\ IssuesInOrder(call.issues)

\* C18 as stated: for every positive maximum count m, the suggested top
\* is at least one graduation step above m: rounded_top - m >= suggested_step.
C18_TopExceedsByStep ==
  (ScaleCall /\ MaxOfCounts(call.counts) > 0) =>
    call.stats.rounded_top - MaxOfCounts(call.counts) >= call.stats.suggested_step

\* C18 amended: for every positive maximum count m, the suggested top is
\* the first multiple of the step above m: it exceeds m by at least 1 and at
\* most one graduation step, 1 <= rounded_top - m <= suggested_step, and by
\* a whole step exactly when m is a multiple of the step.
C18_TopWithinOneStep ==
  (ScaleCall /\ MaxOfCounts(call.counts) > 0) =>
    LET m == MaxOfCounts(call.counts)
        step == call.stats.suggested_step
        top == call.stats.rounded_top
    IN  /\ 1 <= top - m
        /\ top - m <= step
        /\ top - m = step <=> m % step = 0

\* C18 witness: a maximum of 13 gives step 2 and top 14, one above 13
C18_Witness ==
  /\ Analyzed
  /\ call.counts = <<IntV(13)>>
  /\ call.stats.suggested_step = 2
  /\ call.stats.rounded_top = 14

\* C19: what an earlier step validated stays as it was until a reset, so in
\* every state with step = 5 the four guards hold together: goal and
\* variable are non-empty, there are at least 2 categories with one count
\* each, the scale justification is non-empty with scale_choice.top above
\* the maximum of the current counts, and some checklist item is true.
C19_GuardsHoldAtReport ==
  engine.step = 5 =>
    /\ NonEmptyText(engine.goal) /\ NonEmptyText(engine.variable)
    /\ Len(engine.categories) >= 2 /\ Len(engine.categories) = Len(engine.counts)
    /\ NonEmptyText(engine.scale_justif)
    /\ "top" \in DOMAIN engine.scale_choice
    /\ engine.scale_choice.top > analyze_data(engine.categories, engine.counts).stats.max
    /\ \E k \in DOMAIN engine.checklist : engine.checklist[k] = TRUE

\* C19 witness: step 5 has just been entered by the validate of step 4
C19_Witness ==
  /\ engine.step = 5
  /\ last = "validate"
  /\ error = None
  /\ engine.reflection = <<>>

====
